---------------------------- MODULE Spec2Model ----------------------------
(***************************************************************************)
(* Model of the llama.cpp JNI bridge (nativelib/src/main/cpp/              *)
(* llama_bridge.cpp): nativeLoadModel, nativeCompletion and nativeFree.    *)
(*                                                                         *)
(* The heap is three tables indexed by the number of the load call that    *)
(* created the object (0 is the null pointer).  nativeCompletion and       *)
(* nativeFree are run statement by statement by a calling thread; a        *)
(* by-value JNI argument is drawn where the code first reads it.  The      *)
(* inference engine is external: llama_decode and llama_tokenize succeed   *)
(* or fail by nondeterministic choice, and the token a sampler chain       *)
(* selects is a fixed function of the chain and of the cache contents.     *)
(*                                                                         *)
(* Spec runs the calls one at a time on the caller's lane, LiveSpec adds   *)
(* that a call in progress keeps running, and RaceSpec lets a second       *)
(* thread call into the same session without waiting.                      *)
(***************************************************************************)
EXTENDS Integers, Sequences, FiniteSets, TLC

\* ---------------------------------------------------------------- bounds
MaxLoads == 1
MaxPromptLen == 1
MaxTokensArg == 2

\* ------------------------------------------------------ program constants
NSeqIds == 16
DefaultNCtx == 2048
MaxNBatch == 512
CtxMargin == 8
PieceBufSize == 8192
\* 0xFFFFFFFF; a uint32_t is held as the 32-bit pattern read as two's complement
LLAMA_DEFAULT_SEED == -1
MinThreads == 2

\* ------------------------------------------------------------ input sets
Threads == {1, 2}
Lane == CHOOSE t \in Threads : \A u \in Threads : t <= u
NProcs == 1
Paths == {"", "missing.gguf", "model.gguf"}
NCtxArgs == {-1, 0, 1, 4}
NThreadsArgs == {0, 2}
MaxTokensArgs == -1 .. MaxTokensArg
\* temperature in tenths, top-p in hundredths
TempArgs == {-5, 0, 8}
TopPArgs == {-10, 0, 50}
SeedArgs == {-2, 6}
Chars == {97, 98}

\* -------------------------------------------------------------- helpers
Min(a, b) == IF a < b THEN a ELSE b
Max(a, b) == IF a > b THEN a ELSE b
Clamp(v, lo, hi) == IF v < lo THEN lo ELSE IF hi < v THEN hi ELSE v

RECURSIVE SumSeq(_)
SumSeq(s) == IF s = <<>> THEN 0 ELSE Head(s) + SumSeq(Tail(s))

RECURSIVE Count(_, _)
Count(s, x) ==
    IF s = <<>> THEN 0 ELSE (IF Head(s) = x THEN 1 ELSE 0) + Count(Tail(s), x)

Prefix(s, n) == SubSeq(s, 1, n)

Strings == UNION {[1 .. n -> Chars] : n \in 0 .. MaxPromptLen}

\* ------------------------------------------------------------ vocabulary
\* token ids: 0 end of sequence, 1 beginning of sequence, 2 and 3 text
Tokens == 0 .. 3
VocabSize == Cardinality(Tokens)
TOKEN_EOS == 0
TOKEN_BOS == 1

llama_vocab_is_eog(tok) == tok = TOKEN_EOS

Piece(tok) ==
    CASE tok = 0 -> <<60, 47, 115, 62>>
      [] tok = 1 -> <<>>
      [] tok = 2 -> <<97>>
      [] OTHER   -> <<98, 98>>

\* llama_token_to_piece: the number of bytes written, or minus the number
\* needed when the buffer is too small.
llama_token_to_piece(tok, bufsize) ==
    IF Len(Piece(tok)) > bufsize THEN -Len(Piece(tok)) ELSE Len(Piece(tok))

TokensOf(text) == <<TOKEN_BOS>> \o [k \in 1 .. Len(text) |-> text[k] - 95]

SizeOutcomes == {"ok", "zero"}
FillOutcomes == {"ok", "fail"}

\* llama_tokenize: the token count, or minus the count needed when n_max
\* is too small; a negative value on failure.
llama_tokenize(outcome, text, n_max) ==
    CASE outcome = "zero" -> 0
      [] outcome = "fail" -> -Len(TokensOf(text)) - 1
      [] OTHER -> IF Len(TokensOf(text)) > n_max
                  THEN -Len(TokensOf(text)) ELSE Len(TokensOf(text))

\* toJStr: NewStringUTF(s.c_str()) reads up to the first NUL byte.
RECURSIVE toJStr(_)
toJStr(s) ==
    IF s = <<>> \/ Head(s) = 0 THEN <<>> ELSE <<Head(s)>> \o toJStr(Tail(s))

\* ---------------------------------------------------------- sampler chain
Stage(kind, a, b) == [kind |-> kind, a |-> a, b |-> b]

NormTKeepsNegative(temp) == temp

\* line 215
NormT(temp) == Max(0, temp)
NormP(topP) == IF Clamp(topP, 0, 100) = 0 THEN 95 ELSE Clamp(topP, 0, 100)
SeedOf(seed) == IF seed >= 0 THEN seed ELSE LLAMA_DEFAULT_SEED

BuildChainTempLast(T, P, s) ==
    IF T = 0
    THEN <<Stage("greedy", 0, 0)>>
    ELSE <<Stage("top_p", P, 1), Stage("dist", s, 0), Stage("temp", T, 0)>>

BuildChainAlwaysSeeded(T, P, s) ==
    <<Stage("top_p", P, 1), Stage("temp", T, 0), Stage("dist", s, 0)>>

\* lines 230-244
BuildChain(T, P, s) ==
    IF T = 0
    THEN <<Stage("greedy", 0, 0)>>
    ELSE <<Stage("top_p", P, 1), Stage("temp", T, 0), Stage("dist", s, 0)>>

\* The engine's next-token choice: a function of the cache contents of
\* sequence 0 (the logits of the last decode), of the chain's stages and of
\* the chain's accepted history.
Logit(kvseq) == SumSeq(kvseq) + Len(kvseq)

llama_sampler_sample(smpl, kvseq) ==
    IF smpl.chain[Len(smpl.chain)].kind = "greedy"
    THEN Logit(kvseq) % VocabSize
    ELSE (Logit(kvseq) + SumSeq([k \in 1 .. Len(smpl.chain) |-> smpl.chain[k].a])
          + Len(smpl.hist)) % VocabSize

PredictOneMore(maxTokens) == Max(1, maxTokens) + 1

\* line 193
Predict(maxTokens) == Max(1, maxTokens)

NBatch(n_ctx) == Min(MaxNBatch, n_ctx)

NCtxOf(jNCtx) == IF jNCtx > 0 THEN jNCtx ELSE DefaultNCtx

AutoThreads == Max(MinThreads, NProcs)

NThreadsOf(nThreads) == IF nThreads > 0 THEN nThreads ELSE AutoThreads

\* ------------------------------------------------------------------ state
VARIABLES
    handles,      \* LlamaHandle objects: [st, model, ctx, vocab, n_ctx]
    models,       \* llama_model objects: [st, frees]
    ctxs,         \* llama_context objects: [st, frees, n_batch, n_threads, kv]
    loadRet,      \* the value returned by each nativeLoadModel call so far
    backendInits, \* number of llama_backend_init calls
    liveSmpl,     \* number of sampler chains created and not yet freed
    call,         \* per calling thread: the JNI call in progress
    crashed       \* the process used released memory

vars == <<handles, models, ctxs, loadRet, backendInits, liveSmpl, call, crashed>>

ObjIds == 1 .. MaxLoads
SeqIds == 0 .. NSeqIds - 1

EmptyKv == [q \in SeqIds |-> <<>>]
NoHandle == [st |-> "unalloc", model |-> 0, ctx |-> 0, vocab |-> 0, n_ctx |-> 0]
NoModel == [st |-> "none", frees |-> 0]
NoCtx == [st |-> "none", frees |-> 0, n_batch |-> 0, n_threads |-> 0, kv |-> EmptyKv]
NoSampler == [live |-> FALSE, chain |-> <<>>, hist |-> <<>>]
FreshRun == [kv |-> <<>>, hist |-> <<>>, tok |-> 0, out |-> <<>>, diverged |-> FALSE]
TwinRun == [chain |-> <<>>, tok |-> 0, out |-> <<>>, diverged |-> FALSE]

IdleCall ==
    [op |-> "idle", pc |-> "idle", h |-> 0, prompt |-> <<>>,
     seq_id |-> 0, n_prompt |-> 0, toks |-> <<>>, maxTokens |-> 0,
     n_ctx |-> 0, predict |-> 0, warned |-> FALSE, n_batch |-> 0, i |-> 0,
     temp |-> 0, seed |-> 0,
     T |-> 0, P |-> 0, s |-> 0, smpl |-> NoSampler, t |-> 0, tok |-> 0,
     output |-> <<>>, result |-> <<>>,
     \* the request's history, kept for the properties: the engine calls made,
     \* the batches evaluated, the tokens sampled and accepted, whether *h was
     \* read after its release, the exit taken, what the cache held at the
     \* start, the same request run on a freshly loaded handle, and the same
     \* request run with the other seed argument
     ops |-> <<>>, evals |-> <<>>, accepted |-> <<>>, sampled |-> <<>>,
     readFreed |-> FALSE, exit |-> "none", residue |-> "none", fresh |-> FreshRun,
     twin |-> TwinRun]

Init ==
    /\ handles = [k \in ObjIds |-> NoHandle]
    /\ models = [k \in ObjIds |-> NoModel]
    /\ ctxs = [k \in ObjIds |-> NoCtx]
    /\ loadRet = <<>>
    /\ backendInits = 0
    /\ liveSmpl = 0
    /\ call = [t \in Threads |-> IdleCall]
    /\ crashed = FALSE

\* Handles a caller can hold: null, or a value some load call returned.
PassedHandles == {0} \cup {k \in ObjIds : handles[k].st # "unalloc"}

\* ------------------------------------------------------- nativeLoadModel
nativeLoadModelLeaksModel(path, jNCtx, ctxOk) ==
    LET k == Len(loadRet) + 1 IN
    /\ Len(loadRet) < MaxLoads
    /\ UNCHANGED <<liveSmpl, call, crashed>>
    /\ IF path = ""
       THEN /\ loadRet' = Append(loadRet, 0)
            /\ UNCHANGED <<handles, models, ctxs, backendInits>>
       ELSE /\ backendInits' = backendInits + 1
            /\ IF path # "model.gguf"
               THEN /\ loadRet' = Append(loadRet, 0)
                    /\ UNCHANGED <<handles, models, ctxs>>
               ELSE IF ~ctxOk
               THEN /\ models' = [models EXCEPT ![k] = [st |-> "live", frees |-> 0]]
                    /\ loadRet' = Append(loadRet, 0)
                    /\ UNCHANGED <<handles, ctxs>>
               ELSE /\ models' = [models EXCEPT ![k] = [st |-> "live", frees |-> 0]]
                    /\ ctxs' = [ctxs EXCEPT ![k] =
                                   [st |-> "live", frees |-> 0,
                                    n_batch |-> NBatch(NCtxOf(jNCtx)),
                                    n_threads |-> AutoThreads, kv |-> EmptyKv]]
                    /\ handles' = [handles EXCEPT ![k] =
                                      [st |-> "live", model |-> k, ctx |-> k,
                                       vocab |-> k, n_ctx |-> NCtxOf(jNCtx)]]
                    /\ loadRet' = Append(loadRet, k)

\* lines 70-121
nativeLoadModel(path, jNCtx, ctxOk) ==
    LET k == Len(loadRet) + 1 IN
    /\ Len(loadRet) < MaxLoads
    /\ UNCHANGED <<liveSmpl, call, crashed>>
    /\ IF path = ""
       THEN /\ loadRet' = Append(loadRet, 0)
            /\ UNCHANGED <<handles, models, ctxs, backendInits>>
       ELSE /\ backendInits' = backendInits + 1
            /\ IF path # "model.gguf"
               THEN /\ loadRet' = Append(loadRet, 0)
                    /\ UNCHANGED <<handles, models, ctxs>>
               ELSE IF ~ctxOk
               THEN /\ models' = [models EXCEPT ![k] = [st |-> "freed", frees |-> 1]]
                    /\ loadRet' = Append(loadRet, 0)
                    /\ UNCHANGED <<handles, ctxs>>
               ELSE /\ models' = [models EXCEPT ![k] = [st |-> "live", frees |-> 0]]
                    /\ ctxs' = [ctxs EXCEPT ![k] =
                                   [st |-> "live", frees |-> 0,
                                    n_batch |-> NBatch(NCtxOf(jNCtx)),
                                    n_threads |-> AutoThreads, kv |-> EmptyKv]]
                    /\ handles' = [handles EXCEPT ![k] =
                                      [st |-> "live", model |-> k, ctx |-> k,
                                       vocab |-> k, n_ctx |-> NCtxOf(jNCtx)]]
                    /\ loadRet' = Append(loadRet, k)

\* The application keeps one inference session: it loads a model only while
\* it holds no handle that it has not freed.
NoLiveHandle == \A k \in ObjIds : handles[k].st # "live"

LoadModel == /\ NoLiveHandle
             /\ \E path \in Paths, jNCtx \in NCtxArgs, ctxOk \in BOOLEAN :
                    nativeLoadModel(path, jNCtx, ctxOk)

\* ------------------------------------------------------ nativeCompletion
Set(t, c) == call' = [call EXCEPT ![t] = c]

Op(c, name) == [c EXCEPT !.ops = Append(@, name)]

\* return toJStr(env, text), by the exit named `how`
Finish(c, text, how) ==
    [c EXCEPT !.pc = "done", !.result = toJStr(text), !.exit = how]

\* The context the handle of call c points to is still allocated.
Alive(c) ==
    /\ c.h # 0
    /\ handles[c.h].st = "live"
    /\ handles[c.h].ctx # 0
    /\ ctxs[handles[c.h].ctx].st = "live"

\* The vocabulary the handle of call c points to is still allocated; it is
\* owned by the model.
VocabAlive(c) ==
    /\ c.h # 0
    /\ handles[c.h].st = "live"
    /\ handles[c.h].vocab # 0
    /\ models[handles[c.h].vocab].st = "live"

KvOf(c) == ctxs[handles[c.h].ctx].kv

SetKv(c, q, kvseq) ==
    ctxs' = [ctxs EXCEPT ![handles[c.h].ctx].kv[q] = kvseq]

\* What an earlier request left in sequence 0 of the handle's cache when a
\* request for `prompt` begins: nothing, tokens that start with this
\* prompt's tokens, or other tokens.
IsPrefix(a, b) == Len(a) <= Len(b) /\ a = SubSeq(b, 1, Len(a))

Residue(h, prompt) ==
    IF h = 0 \/ handles[h].st # "live" \/ handles[h].ctx = 0
    THEN "none"
    ELSE IF ctxs[handles[h].ctx].kv[0] = <<>>
    THEN "none"
    ELSE IF IsPrefix(TokensOf(prompt), ctxs[handles[h].ctx].kv[0])
    THEN "same" ELSE "other"

BeginCompletionExclusive(t) ==
    /\ call[t].op = "idle"
    /\ \A u \in Threads \ {t} : call[u].op = "idle"
    /\ \E h \in PassedHandles, prompt \in Strings :
           Set(t, [IdleCall EXCEPT !.op = "complete", !.pc = "validate",
                                   !.h = h, !.prompt = prompt,
                                   !.residue = Residue(h, prompt)])
    /\ UNCHANGED <<handles, models, ctxs, loadRet, backendInits, liveSmpl, crashed>>

\* lines 135-139: the call is entered; nothing is tested or taken first
BeginCompletion(t) ==
    /\ call[t].op = "idle"
    /\ \E h \in PassedHandles, prompt \in Strings :
           Set(t, [IdleCall EXCEPT !.op = "complete", !.pc = "validate",
                                   !.h = h, !.prompt = prompt,
                                   !.residue = Residue(h, prompt)])
    /\ UNCHANGED <<handles, models, ctxs, loadRet, backendInits, liveSmpl, crashed>>

\* What a read of *h yields: the fields of a live handle; of a released one
\* either what nativeFree left in the memory or whatever overwrote it since.
HandleReads(h) ==
    IF handles[h].st = "live"
    THEN {handles[h]}
    ELSE {handles[h], [handles[h] EXCEPT !.model = h, !.ctx = h, !.vocab = h]}

\* line 140
InvalidHandle(hv) == hv.ctx = 0 \/ hv.model = 0 \/ hv.vocab = 0

EmptyPromptNever(prompt) == FALSE

\* line 150
EmptyPrompt(prompt) == prompt = <<>>

\* lines 139-153: the handle check and the empty prompt check
Validate(t) ==
    LET c == call[t] IN
    /\ c.op = "complete" /\ c.pc = "validate"
    /\ UNCHANGED <<handles, models, ctxs, loadRet, backendInits, liveSmpl>>
    /\ IF c.h = 0
       THEN Set(t, Finish(c, <<>>, "invalid")) /\ UNCHANGED crashed
       ELSE \E hv \in HandleReads(c.h) :
              LET d == [c EXCEPT !.readFreed = (handles[c.h].st = "freed")] IN
              IF InvalidHandle(hv)
              THEN Set(t, Finish(d, <<>>, "invalid")) /\ UNCHANGED crashed
              ELSE IF EmptyPrompt(c.prompt)
              THEN Set(t, Finish(d, <<>>, "empty")) /\ UNCHANGED crashed
              ELSE IF handles[c.h].st = "freed"
              THEN Set(t, [d EXCEPT !.pc = "reset"]) /\ crashed' = TRUE
              ELSE Set(t, [d EXCEPT !.pc = "reset", !.seq_id = 0])
                   /\ UNCHANGED crashed

ResetStepSkipZero(t) ==
    LET c == call[t] IN
    /\ c.op = "complete" /\ c.pc = "reset" /\ Alive(c)
    /\ c.seq_id < NSeqIds
    /\ IF c.seq_id = 0 THEN UNCHANGED ctxs ELSE SetKv(c, c.seq_id, <<>>)
    /\ Set(t, [Op(c, "seq_rm") EXCEPT
                  !.seq_id = c.seq_id + 1,
                  !.pc = IF c.seq_id + 1 < NSeqIds THEN "reset" ELSE "threads"])
    /\ UNCHANGED <<handles, models, loadRet, backendInits, liveSmpl, crashed>>

ResetStepOneShort(t) ==
    LET c == call[t] IN
    /\ c.op = "complete" /\ c.pc = "reset" /\ Alive(c)
    /\ c.seq_id < NSeqIds
    /\ SetKv(c, c.seq_id, <<>>)
    /\ Set(t, [Op(c, "seq_rm") EXCEPT
                  !.seq_id = c.seq_id + 1,
                  !.pc = IF c.seq_id + 1 < NSeqIds - 1 THEN "reset" ELSE "threads"])
    /\ UNCHANGED <<handles, models, loadRet, backendInits, liveSmpl, crashed>>

\* lines 160-162: one iteration of the KV clearing loop
ResetStep(t) ==
    LET c == call[t] IN
    /\ c.op = "complete" /\ c.pc = "reset" /\ Alive(c)
    /\ c.seq_id < NSeqIds
    /\ SetKv(c, c.seq_id, <<>>)
    /\ Set(t, [Op(c, "seq_rm") EXCEPT
                  !.seq_id = c.seq_id + 1,
                  !.pc = IF c.seq_id + 1 < NSeqIds THEN "reset" ELSE "threads"])
    /\ UNCHANGED <<handles, models, loadRet, backendInits, liveSmpl, crashed>>

\* lines 166-173
SetThreads(t) ==
    LET c == call[t] IN
    /\ c.op = "complete" /\ c.pc = "threads" /\ Alive(c)
    /\ \E nThreads \in NThreadsArgs :
           ctxs' = [ctxs EXCEPT ![handles[c.h].ctx].n_threads = NThreadsOf(nThreads)]
    /\ Set(t, [Op(c, "set_n_threads") EXCEPT !.pc = "tokenize"])
    /\ UNCHANGED <<handles, models, loadRet, backendInits, liveSmpl, crashed>>

\* lines 177-188: the size query, then the fill
TokenizeStep(t) ==
    LET c == call[t] IN
    /\ c.op = "complete" /\ c.pc = "tokenize" /\ VocabAlive(c)
    /\ \E o1 \in SizeOutcomes, o2 \in FillOutcomes :
         LET n_prompt == -llama_tokenize(o1, c.prompt, 0)
             d == [Op(c, "tokenize") EXCEPT !.n_prompt = n_prompt]
         IN IF n_prompt <= 0
            THEN Set(t, Finish(d, <<>>, "tokenize"))
            ELSE IF llama_tokenize(o2, c.prompt, n_prompt) < 0
            THEN Set(t, Finish(Op(d, "tokenize"), <<>>, "tokenize"))
            ELSE Set(t, [Op(d, "tokenize") EXCEPT
                            !.toks = TokensOf(c.prompt), !.pc = "capacity"])
    /\ UNCHANGED <<handles, models, ctxs, loadRet, backendInits, liveSmpl, crashed>>

CapacityCheckNoMargin(t) ==
    LET c == call[t] IN
    /\ c.op = "complete" /\ c.pc = "capacity" /\ Alive(c)
    /\ \E maxTokens \in MaxTokensArgs :
         Set(t, [c EXCEPT !.maxTokens = maxTokens,
                          !.n_ctx = handles[c.h].n_ctx,
                          !.predict = Predict(maxTokens),
                          !.warned = (c.n_prompt + Predict(maxTokens)
                                        > handles[c.h].n_ctx),
                          !.n_batch = ctxs[handles[c.h].ctx].n_batch,
                          !.i = 0,
                          !.pc = "prompt"])
    /\ UNCHANGED <<handles, models, ctxs, loadRet, backendInits, liveSmpl, crashed>>

CapacityCheckClips(t) ==
    LET c == call[t] IN
    /\ c.op = "complete" /\ c.pc = "capacity" /\ Alive(c)
    /\ \E maxTokens \in MaxTokensArgs :
         LET over == c.n_prompt + Predict(maxTokens) + CtxMargin > handles[c.h].n_ctx IN
         Set(t, [c EXCEPT !.maxTokens = maxTokens,
                          !.n_ctx = handles[c.h].n_ctx,
                          !.predict =
                              IF over
                              THEN Max(1, handles[c.h].n_ctx - c.n_prompt - CtxMargin)
                              ELSE Predict(maxTokens),
                          !.warned = over,
                          !.n_batch = ctxs[handles[c.h].ctx].n_batch,
                          !.i = 0,
                          !.pc = "prompt"])
    /\ UNCHANGED <<handles, models, ctxs, loadRet, backendInits, liveSmpl, crashed>>

\* lines 192-201: the context length check and the read of n_batch
CapacityCheck(t) ==
    LET c == call[t] IN
    /\ c.op = "complete" /\ c.pc = "capacity" /\ Alive(c)
    /\ \E maxTokens \in MaxTokensArgs :
         Set(t, [c EXCEPT !.maxTokens = maxTokens,
                          !.n_ctx = handles[c.h].n_ctx,
                          !.predict = Predict(maxTokens),
                          !.warned = (c.n_prompt + Predict(maxTokens) + CtxMargin
                                        > handles[c.h].n_ctx),
                          !.n_batch = ctxs[handles[c.h].ctx].n_batch,
                          !.i = 0,
                          !.pc = "prompt"])
    /\ UNCHANGED <<handles, models, ctxs, loadRet, backendInits, liveSmpl, crashed>>

\* a llama_decode call: its batch, its outcome, and whether the chain
\* existed, that is whether the generation loop made it
Eval(c, batch, ok) ==
    [c EXCEPT !.evals = Append(@, [toks |-> batch, ok |-> ok, gen |-> c.smpl.live])]

PromptDecodeNoMin(t) ==
    LET c == call[t]
        m == c.n_prompt - c.i
        batch == SubSeq(c.toks, c.i + 1, c.i + m)
    IN
    /\ c.op = "complete" /\ c.pc = "prompt" /\ Alive(c)
    /\ c.i < c.n_prompt
    /\ \E ok \in BOOLEAN, kept \in 0 .. m - 1 :
         IF ok
         THEN /\ kept = 0
              /\ SetKv(c, 0, KvOf(c)[0] \o batch)
              /\ Set(t, [Op(Eval(c, batch, TRUE), "decode") EXCEPT
                            !.i = c.i + m,
                            !.fresh.kv = @ \o batch,
                            !.pc = IF c.i + m < c.n_prompt
                                   THEN "prompt" ELSE "sampler"])
         ELSE /\ SetKv(c, 0, KvOf(c)[0] \o Prefix(batch, kept))
              /\ Set(t, Finish(Op(Eval(c, batch, FALSE), "decode"), <<>>, "prompt_decode"))
    /\ UNCHANGED <<handles, models, loadRet, backendInits, liveSmpl, crashed>>

PromptDecodeIgnoresFailure(t) ==
    LET c == call[t]
        m == Min(c.n_batch, c.n_prompt - c.i)
        batch == SubSeq(c.toks, c.i + 1, c.i + m)
    IN
    /\ c.op = "complete" /\ c.pc = "prompt" /\ Alive(c)
    /\ c.i < c.n_prompt
    /\ \E ok \in BOOLEAN :
         /\ SetKv(c, 0, IF ok THEN KvOf(c)[0] \o batch ELSE KvOf(c)[0])
         /\ Set(t, [Op(Eval(c, batch, ok), "decode") EXCEPT
                       !.i = c.i + c.n_batch,
                       !.fresh.kv = IF ok THEN @ \o batch ELSE @,
                       !.pc = IF c.i + c.n_batch < c.n_prompt
                              THEN "prompt" ELSE "sampler"])
    /\ UNCHANGED <<handles, models, loadRet, backendInits, liveSmpl, crashed>>

\* lines 202-209: one iteration of the prompt loop.  A failed llama_decode
\* may leave part of the batch in the cache.
PromptDecode(t) ==
    LET c == call[t]
        m == Min(c.n_batch, c.n_prompt - c.i)
        batch == SubSeq(c.toks, c.i + 1, c.i + m)
    IN
    /\ c.op = "complete" /\ c.pc = "prompt" /\ Alive(c)
    /\ c.i < c.n_prompt
    /\ \E ok \in BOOLEAN, kept \in 0 .. m - 1 :
         IF ok
         THEN /\ kept = 0
              /\ SetKv(c, 0, KvOf(c)[0] \o batch)
              /\ Set(t, [Op(Eval(c, batch, TRUE), "decode") EXCEPT
                            !.i = c.i + c.n_batch,
                            !.fresh.kv = @ \o batch,
                            !.pc = IF c.i + c.n_batch < c.n_prompt
                                   THEN "prompt" ELSE "sampler"])
         ELSE /\ SetKv(c, 0, KvOf(c)[0] \o Prefix(batch, kept))
              /\ Set(t, Finish(Op(Eval(c, batch, FALSE), "decode"), <<>>, "prompt_decode"))
    /\ UNCHANGED <<handles, models, loadRet, backendInits, liveSmpl, crashed>>

OtherSeed(seed) == CHOOSE x \in SeedArgs : x # seed

\* lines 215-248: build the sampler chain
SamplerInit(t) ==
    LET c == call[t] IN
    /\ c.op = "complete" /\ c.pc = "sampler"
    /\ \E temp \in TempArgs, topP \in TopPArgs, seed \in SeedArgs, allocOk \in BOOLEAN :
         LET T == NormT(temp)
             P == NormP(topP)
             d == [c EXCEPT !.temp = temp, !.seed = seed, !.T = T, !.P = P]
         IN IF ~allocOk
            THEN /\ Set(t, Finish(Op(d, "chain_init_failed"), <<>>, "sampler"))
                 /\ UNCHANGED liveSmpl
            ELSE /\ Set(t, [Op(d, "chain_init") EXCEPT
                              !.s = SeedOf(seed),
                              !.smpl = [live |-> TRUE,
                                        chain |-> BuildChain(T, P, SeedOf(seed)),
                                        hist |-> <<>>],
                              !.t = 0,
                              !.output = <<>>,
                              !.twin.chain =
                                  BuildChain(T, P, SeedOf(OtherSeed(seed))),
                              !.pc = "sample"])
                 /\ liveSmpl' = liveSmpl + 1
    /\ UNCHANGED <<handles, models, ctxs, loadRet, backendInits, crashed>>

AfterSampleNeverStops(tok) == "accept"

AfterSampleReturnsOnEog(tok) == IF llama_vocab_is_eog(tok) THEN "done" ELSE "accept"

AfterSampleSkipsAccept(tok) == IF llama_vocab_is_eog(tok) THEN "free_sampler" ELSE "piece"

\* lines 257-261: break on an end-of-generation token
AfterSample(tok) == IF llama_vocab_is_eog(tok) THEN "free_sampler" ELSE "accept"

\* lines 253-261: sample, and stop on an end-of-generation token
SampleStep(t) ==
    LET c == call[t]
        tok == llama_sampler_sample(c.smpl, KvOf(c)[0])
        ftok == llama_sampler_sample([c.smpl EXCEPT !.hist = c.fresh.hist],
                                     c.fresh.kv)
        ttok == llama_sampler_sample([c.smpl EXCEPT !.chain = c.twin.chain],
                                     KvOf(c)[0])
        d == [Op(c, "sample") EXCEPT
                 !.tok = tok, !.sampled = Append(@, tok),
                 !.twin.tok = ttok,
                 !.twin.diverged = @ \/ ttok # tok,
                 !.fresh.tok = ftok,
                 !.fresh.diverged =
                     @ \/ (llama_vocab_is_eog(ftok) # llama_vocab_is_eog(tok))]
    IN
    /\ c.op = "complete" /\ c.pc = "sample" /\ Alive(c)
    /\ c.t < c.predict
    /\ Set(t, [d EXCEPT !.pc = AfterSample(tok),
                        !.exit = IF llama_vocab_is_eog(tok) THEN "eog" ELSE @])
    /\ UNCHANGED <<handles, models, ctxs, loadRet, backendInits, liveSmpl, crashed>>

\* line 265
AcceptStep(t) ==
    LET c == call[t] IN
    /\ c.op = "complete" /\ c.pc = "accept"
    /\ Set(t, [Op(c, "accept") EXCEPT
                  !.smpl.hist = Append(@, c.tok),
                  !.accepted = Append(@, c.tok),
                  !.fresh.hist = Append(@, c.fresh.tok),
                  !.pc = "piece"])
    /\ UNCHANGED <<handles, models, ctxs, loadRet, backendInits, liveSmpl, crashed>>

\* lines 269-274
PieceStep(t) ==
    LET c == call[t]
        n == llama_token_to_piece(c.tok, PieceBufSize)
        text == IF n > 0 THEN Prefix(Piece(c.tok), n) ELSE <<>>
        fn == llama_token_to_piece(c.fresh.tok, PieceBufSize)
        ftext == IF fn > 0 THEN Prefix(Piece(c.fresh.tok), fn) ELSE <<>>
        tn == llama_token_to_piece(c.twin.tok, PieceBufSize)
        ttext == IF tn > 0 THEN Prefix(Piece(c.twin.tok), tn) ELSE <<>>
    IN
    /\ c.op = "complete" /\ c.pc = "piece"
    /\ Set(t, [Op(c, "token_to_piece") EXCEPT
                  !.output = @ \o text,
                  !.fresh.out = @ \o ftext,
                  !.twin.out = IF c.twin.diverged THEN @ ELSE @ \o ttext,
                  !.pc = "decode"])
    /\ UNCHANGED <<handles, models, ctxs, loadRet, backendInits, liveSmpl, crashed>>

AfterDecodeFailureContinues == "sample"

\* lines 279-282: break on a failed llama_decode
AfterDecodeFailure == "free_sampler"

DecodeStepNoIncrement(t) ==
    LET c == call[t] IN
    /\ c.op = "complete" /\ c.pc = "decode" /\ Alive(c)
    /\ \E ok \in BOOLEAN :
         IF ok
         THEN /\ SetKv(c, 0, Append(KvOf(c)[0], c.tok))
              /\ Set(t, [Op(Eval(c, <<c.tok>>, TRUE), "decode") EXCEPT
                            !.fresh.kv = Append(@, c.fresh.tok),
                            !.pc = IF c.t < c.predict THEN "sample"
                                                      ELSE "free_sampler",
                            !.exit = IF c.t < c.predict THEN @ ELSE "budget"])
         ELSE /\ UNCHANGED ctxs
              /\ Set(t, [Op(Eval(c, <<c.tok>>, FALSE), "decode") EXCEPT
                            !.pc = AfterDecodeFailure, !.exit = "gen_decode"])
    /\ UNCHANGED <<handles, models, loadRet, backendInits, liveSmpl, crashed>>

\* lines 278-286: feed the token back, then the loop's ++t and t < predict
DecodeStep(t) ==
    LET c == call[t] IN
    /\ c.op = "complete" /\ c.pc = "decode" /\ Alive(c)
    /\ \E ok \in BOOLEAN :
         IF ok
         THEN /\ SetKv(c, 0, Append(KvOf(c)[0], c.tok))
              /\ Set(t, [Op(Eval(c, <<c.tok>>, TRUE), "decode") EXCEPT
                            !.t = c.t + 1,
                            !.fresh.kv = Append(@, c.fresh.tok),
                            !.pc = IF c.t + 1 < c.predict THEN "sample"
                                                          ELSE "free_sampler",
                            !.exit = IF c.t + 1 < c.predict THEN @ ELSE "budget"])
         ELSE /\ UNCHANGED ctxs
              /\ Set(t, [Op(Eval(c, <<c.tok>>, FALSE), "decode") EXCEPT
                            !.pc = AfterDecodeFailure, !.exit = "gen_decode"])
    /\ UNCHANGED <<handles, models, loadRet, backendInits, liveSmpl, crashed>>

FreeSamplerFreesContext(t) ==
    LET c == call[t]
        x == handles[c.h].ctx
    IN
    /\ c.op = "complete" /\ c.pc = "free_sampler"
    /\ liveSmpl' = liveSmpl - 1
    /\ ctxs' = [ctxs EXCEPT ![x] = [NoCtx EXCEPT !.st = "freed",
                                                !.frees = ctxs[x].frees + 1]]
    /\ Set(t, [Op(c, "sampler_free") EXCEPT
                  !.smpl = NoSampler,
                  !.pc = "done",
                  !.result = toJStr(c.output)])
    /\ UNCHANGED <<handles, models, loadRet, backendInits, crashed>>

\* lines 290-294
FreeSampler(t) ==
    LET c == call[t] IN
    /\ c.op = "complete" /\ c.pc = "free_sampler"
    /\ liveSmpl' = liveSmpl - 1
    /\ Set(t, [Op(c, "sampler_free") EXCEPT
                  !.smpl = NoSampler,
                  !.pc = "done",
                  !.result = toJStr(c.output)])
    /\ UNCHANGED <<handles, models, ctxs, loadRet, backendInits, crashed>>

\* the JNI call returns to the caller
Return(t) ==
    /\ call[t].op # "idle" /\ call[t].pc = "done"
    /\ Set(t, IdleCall)
    /\ UNCHANGED <<handles, models, ctxs, loadRet, backendInits, liveSmpl, crashed>>

\* ------------------------------------------------------------ nativeFree
BeginFree(t) ==
    /\ call[t].op = "idle"
    /\ \E h \in PassedHandles :
           Set(t, [IdleCall EXCEPT !.op = "free", !.pc = "free_check", !.h = h])
    /\ UNCHANGED <<handles, models, ctxs, loadRet, backendInits, liveSmpl, crashed>>

\* line 305; a handle already deleted is released memory
FreeCheck(t) ==
    LET c == call[t] IN
    /\ c.op = "free" /\ c.pc = "free_check"
    /\ IF c.h = 0
       THEN Set(t, [c EXCEPT !.pc = "done", !.exit = "null"]) /\ UNCHANGED crashed
       ELSE IF handles[c.h].st = "freed"
       THEN Set(t, [c EXCEPT !.readFreed = TRUE]) /\ crashed' = TRUE
       ELSE Set(t, [c EXCEPT !.pc = "free_ctx"]) /\ UNCHANGED crashed
    /\ UNCHANGED <<handles, models, ctxs, loadRet, backendInits, liveSmpl>>

FreeCtxLeaks(t) ==
    LET c == call[t] IN
    /\ c.op = "free" /\ c.pc = "free_ctx"
    /\ handles' = [handles EXCEPT ![c.h].ctx = 0]
    /\ Set(t, [c EXCEPT !.pc = "free_model"])
    /\ UNCHANGED <<ctxs, models, loadRet, backendInits, liveSmpl, crashed>>

\* line 307
FreeCtx(t) ==
    LET c == call[t]
        x == handles[c.h].ctx
    IN
    /\ c.op = "free" /\ c.pc = "free_ctx"
    /\ IF x # 0
       THEN /\ ctxs' = [ctxs EXCEPT ![x] = [NoCtx EXCEPT !.st = "freed",
                                                        !.frees = ctxs[x].frees + 1]]
            /\ handles' = [handles EXCEPT ![c.h].ctx = 0]
            /\ Set(t, [Op(c, "llama_free") EXCEPT !.pc = "free_model"])
       ELSE /\ UNCHANGED <<ctxs, handles>>
            /\ Set(t, [c EXCEPT !.pc = "free_model"])
    /\ UNCHANGED <<models, loadRet, backendInits, liveSmpl, crashed>>

\* line 308
FreeModel(t) ==
    LET c == call[t]
        x == handles[c.h].model
    IN
    /\ c.op = "free" /\ c.pc = "free_model"
    /\ IF x # 0
       THEN /\ models' = [models EXCEPT ![x] = [st |-> "freed",
                                                frees |-> models[x].frees + 1]]
            /\ handles' = [handles EXCEPT ![c.h].model = 0]
            /\ Set(t, [Op(c, "llama_model_free") EXCEPT !.pc = "delete"])
       ELSE /\ UNCHANGED <<models, handles>>
            /\ Set(t, [c EXCEPT !.pc = "delete"])
    /\ UNCHANGED <<ctxs, loadRet, backendInits, liveSmpl, crashed>>

\* line 310
DeleteHandle(t) ==
    LET c == call[t] IN
    /\ c.op = "free" /\ c.pc = "delete"
    /\ handles' = [handles EXCEPT ![c.h].st = "freed"]
    /\ Set(t, [Op(c, "delete") EXCEPT !.pc = "done", !.exit = "freed"])
    /\ UNCHANGED <<models, ctxs, loadRet, backendInits, liveSmpl, crashed>>

\* --------------------------------------------------------- specification
AllIdle == \A u \in Threads : call[u].op = "idle"

\* The caller serialises its calls on one execution lane.
Serial(A) == ~crashed /\ AllIdle /\ A
Step(A) == ~crashed /\ A

Next ==
    \/ Serial(LoadModel)
    \/ Serial(BeginCompletion(Lane))
    \/ Serial(BeginFree(Lane))
    \/ Step(Validate(Lane))
    \/ Step(ResetStep(Lane))
    \/ Step(SetThreads(Lane))
    \/ Step(TokenizeStep(Lane))
    \/ Step(CapacityCheck(Lane))
    \/ Step(PromptDecode(Lane))
    \/ Step(SamplerInit(Lane))
    \/ Step(SampleStep(Lane))
    \/ Step(AcceptStep(Lane))
    \/ Step(PieceStep(Lane))
    \/ Step(DecodeStep(Lane))
    \/ Step(FreeSampler(Lane))
    \/ Step(FreeCheck(Lane))
    \/ Step(FreeCtx(Lane))
    \/ Step(FreeModel(Lane))
    \/ Step(DeleteHandle(Lane))
    \/ Step(Return(Lane))

Spec == Init /\ [][Next]_vars

\* nativeCompletion is a blocking call with no wait in it: the calling
\* thread runs it statement by statement until it returns.
CompletionStep(t) ==
    \/ Validate(t) \/ ResetStep(t) \/ SetThreads(t) \/ TokenizeStep(t)
    \/ CapacityCheck(t) \/ PromptDecode(t) \/ SamplerInit(t) \/ SampleStep(t)
    \/ AcceptStep(t) \/ PieceStep(t) \/ DecodeStep(t) \/ FreeSampler(t)
    \/ (call[t].op = "complete" /\ Return(t))

LiveSpec == Spec /\ WF_vars(Step(CompletionStep(Lane)))

\* ------------------------------------------------- calls that interleave
\* A second thread that calls into the same session without waiting for the
\* lane.
Other == CHOOSE t \in Threads : t # Lane

\* the statements of nativeCompletion that pass h->ctx to the engine, and
\* those that pass h->vocab
CtxPcs == {"reset", "threads", "capacity", "prompt", "sample", "decode"}
VocabPcs == {"tokenize", "sample", "piece"}

\* A statement of nativeCompletion uses a context, a vocabulary or a
\* LlamaHandle that nativeFree has released in the meantime.
UseAfterFree(t) ==
    LET c == call[t] IN
    /\ c.op = "complete"
    /\ \/ c.pc \in CtxPcs /\ ~Alive(c)
       \/ c.pc \in VocabPcs /\ ~VocabAlive(c)
    /\ crashed' = TRUE
    /\ Set(t, [c EXCEPT !.readFreed = handles[c.h].st = "freed"])
    /\ UNCHANGED <<handles, models, ctxs, loadRet, backendInits, liveSmpl>>

\* llama_context is not thread-safe: two engine calls on one context at the
\* same time, or one at the time of its llama_free, are a data race.
DataRace(t) ==
    LET c == call[t] IN
    /\ c.op = "complete" /\ c.pc \in CtxPcs /\ Alive(c)
    /\ \E u \in Threads \ {t} :
          /\ call[u].h = c.h
          /\ \/ call[u].op = "complete" /\ call[u].pc \in CtxPcs
             \/ call[u].op = "free" /\ call[u].pc = "free_ctx"
    /\ crashed' = TRUE
    /\ UNCHANGED <<handles, models, ctxs, loadRet, backendInits, liveSmpl, call>>

\* The requests of the interleaved runs: one prompt of one character, a
\* budget of one token, temperature 0, on a session loaded with the default
\* context size.
RaceInputs ==
    /\ \A k \in ObjIds : handles[k].n_ctx \in {0, DefaultNCtx}
    /\ \A t \in Threads :
          /\ call[t].op = "complete" => call[t].prompt = <<97>>
          /\ call[t].maxTokens \in {0, 1}
          /\ call[t].temp = 0
          /\ call[t].P \in {0, 95}
          /\ call[t].seed <= 0

RStep(A) == ~crashed /\ A /\ RaceInputs'

RaceNext ==
    \/ RStep(AllIdle /\ LoadModel)
    \/ \E t \in Threads : RStep(BeginCompletion(t))
    \/ RStep(BeginFree(Other))
    \/ \E t \in Threads : RStep(Validate(t))
    \/ \E t \in Threads : RStep(ResetStep(t))
    \/ \E t \in Threads : RStep(SetThreads(t))
    \/ \E t \in Threads : RStep(TokenizeStep(t))
    \/ \E t \in Threads : RStep(CapacityCheck(t))
    \/ \E t \in Threads : RStep(PromptDecode(t))
    \/ \E t \in Threads : RStep(SamplerInit(t))
    \/ \E t \in Threads : RStep(SampleStep(t))
    \/ \E t \in Threads : RStep(AcceptStep(t))
    \/ \E t \in Threads : RStep(PieceStep(t))
    \/ \E t \in Threads : RStep(DecodeStep(t))
    \/ \E t \in Threads : RStep(FreeSampler(t))
    \/ \E t \in Threads : RStep(Return(t))
    \/ RStep(FreeCheck(Other))
    \/ RStep(FreeCtx(Other))
    \/ RStep(FreeModel(Other))
    \/ RStep(DeleteHandle(Other))
    \/ \E t \in Threads : RStep(UseAfterFree(t))
    \/ \E t \in Threads : RStep(DataRace(t))

RaceSpec == Init /\ [][RaceNext]_vars

\* ---------------------------------------------------------------- claims
Completes == {t \in Threads : call[t].op = "complete"}

Last(q) == q[Len(q)]

RECURSIVE ConcatPieces(_)
ConcatPieces(toks) ==
    IF toks = <<>> THEN <<>> ELSE Piece(Head(toks)) \o ConcatPieces(Tail(toks))

ValidHandle(h) ==
    /\ h # 0
    /\ handles[h].st = "live"
    /\ handles[h].model # 0 /\ models[handles[h].model].st = "live"
    /\ handles[h].ctx # 0 /\ ctxs[handles[h].ctx].st = "live"
    /\ handles[h].vocab # 0

\* C1 (reset isolation): whatever an earlier request left in the handle's
\* context, a request sees an empty cache in all 16 sequences at its first
\* prompt evaluation, from then on its cache holds exactly what the cache of
\* a freshly loaded handle would hold, and the text it returns is the text
\* the same request returns as the first call on a freshly loaded handle
\* under the same engine outcomes.
ResetIsolation ==
    \A t \in Completes :
        LET c == call[t] IN
        /\ (c.pc = "prompt" /\ c.i = 0) => KvOf(c) = EmptyKv
        /\ c.pc \in {"sampler", "sample", "accept", "piece", "decode", "free_sampler"}
              => KvOf(c)[0] = c.fresh.kv
        /\ c.pc = "done" => (~c.fresh.diverged /\ c.result = toJStr(c.fresh.out))

\* a request that returned generated text on a handle whose cache still held
\* the tokens of a different earlier request when it began
ResetIsolationWitness ==
    \E t \in Completes :
        /\ call[t].pc = "done"
        /\ call[t].residue = "other"
        /\ call[t].exit = "budget"
        /\ Len(call[t].accepted) = 2
        /\ call[t].result # <<>>

\* C2 (validation has no side effects): the validation step of a request
\* with a null handle, a handle missing a field or an empty prompt ends the
\* request, and a validation step that ends the request returns the empty
\* string, leaves handles, models, contexts and sampler chains as they were
\* and performs no engine operation.
ValidationNoSideEffects ==
    [][\A t \in Threads :
          LET c == call[t] IN
          (c.op = "complete" /\ c.pc = "validate" /\ call'[t] # c)
          => /\ (\/ c.h = 0
                 \/ c.prompt = <<>>
                 \/ (handles[c.h].st = "live" /\ InvalidHandle(handles[c.h])))
                => call'[t].pc = "done"
             /\ call'[t].pc = "done"
                => /\ call'[t].exit \in {"invalid", "empty"}
                   /\ call'[t].result = <<>>
                   /\ call'[t].ops = <<>>
                   /\ call'[t].evals = <<>>
                   /\ ~call'[t].smpl.live
                   /\ UNCHANGED <<handles, models, ctxs, liveSmpl, crashed>>]_vars

\* a request with an empty prompt on a valid handle whose cache is not
\* empty has returned
ValidationNoSideEffectsWitness ==
    \E t \in Completes :
        /\ call[t].pc = "done"
        /\ call[t].exit = "empty"
        /\ ValidHandle(call[t].h)
        /\ KvOf(call[t])[0] # <<>>

\* C3 (as claimed): a request on a handle that nativeFree has released ends
\* at the validity check with the empty string, without a read of the
\* released LlamaHandle and without an engine operation.
FreedHandleDetected ==
    /\ ~crashed
    /\ \A t \in Completes :
           LET c == call[t] IN
           (c.h # 0 /\ handles[c.h].st = "freed" /\ c.pc # "validate")
           => (c.pc = "done" /\ c.result = <<>> /\ c.ops = <<>> /\ ~c.readFreed)

\* C4 (as claimed): the number of accepted tokens never exceeds the
\* maxTokens argument, here for the non-negative values of the argument.
TokenBudgetAsClaimed ==
    \A t \in Completes :
        call[t].maxTokens >= 0 => Len(call[t].accepted) <= call[t].maxTokens

\* C4 (amended): the number of sampled tokens, and so of accepted tokens, is
\* at most max(1, maxTokens): at most maxTokens when maxTokens >= 1, at most
\* one otherwise.
TokenBudget ==
    \A t \in Completes :
        LET c == call[t]
            budget == IF c.maxTokens >= 1 THEN c.maxTokens ELSE 1
        IN /\ Len(c.accepted) <= Len(c.sampled)
           /\ Len(c.sampled) <= budget
           /\ Len(c.evals) <= Len(c.toks) + budget

\* a request with maxTokens = 2 that accepted two tokens and stopped on the
\* budget
TokenBudgetWitness ==
    \E t \in Completes :
        /\ call[t].pc = "done"
        /\ call[t].exit = "budget"
        /\ call[t].maxTokens = 2
        /\ Len(call[t].accepted) = 2

\* C5 (stop on end marker): once the k-th sampled token is an
\* end-of-generation token the loop is over: nothing is sampled, accepted,
\* detokenized or evaluated after it, no earlier sampled token was one, the
\* accepted tokens are the k-1 tokens sampled before it, and the text
\* returned is the concatenation of their pieces.
StopOnEndMarker ==
    \A t \in Completes :
        LET c == call[t]
            k == Len(c.sampled)
        IN (k > 0 /\ Last(c.sampled) = TOKEN_EOS)
           => /\ c.pc \in {"free_sampler", "done"}
              /\ k <= c.predict
              /\ \A j \in 1 .. k - 1 : c.sampled[j] # TOKEN_EOS
              /\ c.accepted = Prefix(c.sampled, k - 1)
              /\ Last(c.ops) \in {"sample", "sampler_free"}
              /\ Len(c.evals) = (c.n_prompt + c.n_batch - 1) \div c.n_batch + (k - 1)
              /\ \A j \in 1 .. Len(c.evals) : c.evals[j].ok
              /\ c.output = ConcatPieces(c.accepted)
              /\ c.pc = "done" => c.result = ConcatPieces(c.accepted)

\* a request whose second sampled token was the end marker and which
\* returned the non-empty piece of the first
StopOnEndMarkerWitness ==
    \E t \in Completes :
        /\ call[t].pc = "done"
        /\ call[t].exit = "eog"
        /\ Len(call[t].sampled) = 2
        /\ call[t].result # <<>>

\* C6 (sampler chain destroyed exactly once): a request never frees more
\* chains than it created, holds a live chain exactly while it has created
\* one and not yet freed it, and has returned, on the end-of-generation,
\* budget and evaluate-failure exits, with one chain created and one freed;
\* the number of live chains is the number of requests holding one, so none
\* is live between requests.
SamplerFreedOnce ==
    /\ liveSmpl = Cardinality({t \in Completes : call[t].smpl.live})
    /\ \A t \in Completes :
           LET c == call[t]
               inits == Count(c.ops, "chain_init")
               frees == Count(c.ops, "sampler_free")
           IN /\ frees <= inits /\ inits <= 1
              /\ c.smpl.live <=> (inits = 1 /\ frees = 0)
              /\ c.pc = "done" => (~c.smpl.live /\ frees = inits)
              /\ (c.pc = "done" /\ c.exit \in {"eog", "budget", "gen_decode"})
                    => (inits = 1 /\ frees = 1)

\* a request whose generation loop ended on a failed evaluate has returned
\* with its chain freed
SamplerFreedOnceWitness ==
    \E t \in Completes :
        /\ call[t].pc = "done"
        /\ call[t].exit = "gen_decode"
        /\ Count(call[t].ops, "sampler_free") = 1
        /\ liveSmpl = 0

\* C7 (failure during generation yields partial output): once an evaluate
\* call of the generation loop has failed, the failed call is the last
\* engine operation of the request but for the release of the chain, the
\* token it evaluated is the last accepted one, and the text returned is the
\* concatenation of the pieces of all accepted tokens, that one included.
PartialOutputOnFailure ==
    \A t \in Completes :
        LET c == call[t] IN
        (c.evals # <<>> /\ ~Last(c.evals).ok /\ Count(c.ops, "chain_init") = 1)
        => /\ c.pc \in {"free_sampler", "done"}
           /\ c.accepted # <<>>
           /\ Last(c.evals).toks = <<Last(c.accepted)>>
           /\ c.accepted = c.sampled
           /\ c.output = ConcatPieces(c.accepted)
           /\ c.pc = "free_sampler" => Last(c.ops) = "decode"
           /\ c.pc = "done" => /\ Last(c.ops) = "sampler_free"
                               /\ c.ops[Len(c.ops) - 1] = "decode"
                               /\ c.result = ConcatPieces(c.accepted)

\* a request has returned the pieces of two accepted tokens after the
\* evaluation of the second, whose piece is not empty, failed
PartialOutputOnFailureWitness ==
    \E t \in Completes :
        /\ call[t].pc = "done"
        /\ call[t].exit = "gen_decode"
        /\ Len(call[t].accepted) = 2
        /\ Piece(call[t].accepted[2]) # <<>>
        /\ call[t].result = ConcatPieces(call[t].accepted)

\* C8 (failure before generation short-circuits): a failed evaluate call is
\* the last evaluate call of its request; when the size query yields no
\* token, the fill fails or a prompt chunk fails to evaluate, the request has
\* returned the empty string with no chain created and no token sampled, and
\* in the two tokenization cases with nothing evaluated.
FailureBeforeGeneration ==
    \A t \in Completes :
        LET c == call[t]
            early == Count(c.ops, "chain_init") = 0
        IN /\ \A j \in 1 .. Len(c.evals) - 1 : c.evals[j].ok
           /\ (c.evals # <<>> /\ ~Last(c.evals).ok /\ early)
                 => (c.pc = "done" /\ c.exit = "prompt_decode" /\ Last(c.ops) = "decode")
           /\ (Count(c.ops, "tokenize") = 1 /\ c.n_prompt <= 0)
                 => (c.pc = "done" /\ c.exit = "tokenize")
           /\ (Count(c.ops, "tokenize") = 2 /\ c.toks = <<>>)
                 => (c.pc = "done" /\ c.exit = "tokenize")
           /\ (c.pc = "done" /\ c.exit = "tokenize") => c.evals = <<>>
           /\ (c.pc = "done" /\ c.exit \in {"tokenize", "prompt_decode"})
                 => /\ c.result = <<>>
                    /\ early /\ ~c.smpl.live
                    /\ c.sampled = <<>>

\* a request has returned after its first prompt chunk failed, with the
\* later chunk of the prompt never evaluated
FailureBeforeGenerationWitness ==
    \E t \in Completes :
        /\ call[t].pc = "done"
        /\ call[t].exit = "prompt_decode"
        /\ Len(call[t].evals) = 1
        /\ call[t].n_prompt > call[t].n_batch

\* C9 (failures are not fatal to the handle): no step of a request, on any
\* exit path, changes a LlamaHandle or a model or releases a context, and a
\* handle that is valid before the step is valid after it.
HandleSurvivesCompletion ==
    [][\A t \in Threads :
          (call[t].op = "complete" /\ call'[t] # call[t])
          => /\ handles' = handles
             /\ models' = models
             /\ \A k \in ObjIds : /\ ctxs'[k].st = ctxs[k].st
                                  /\ ctxs'[k].frees = ctxs[k].frees
                                  /\ ctxs'[k].n_batch = ctxs[k].n_batch
             /\ \A h \in ObjIds :
                    (call[t].h = h /\ ValidHandle(h)) => ValidHandle(h)']_vars

\* a request has passed the validity check on a handle that an earlier
\* request used
HandleSurvivesCompletionWitness ==
    \E t \in Completes :
        /\ call[t].pc = "threads"
        /\ call[t].residue # "none"
        /\ ValidHandle(call[t].h)

\* C10 (load failure releases what it acquired): a load that returned the
\* null handle left no handle and no context, and either no model or a model
\* released exactly once; a load that returned a handle created that handle,
\* its model and its context.
LoadFailureReleases ==
    \A k \in 1 .. Len(loadRet) :
        /\ loadRet[k] \in {0, k}
        /\ loadRet[k] = 0
              => /\ handles[k].st = "unalloc"
                 /\ ctxs[k].st = "none"
                 /\ \/ models[k] = [st |-> "none", frees |-> 0]
                    \/ models[k] = [st |-> "freed", frees |-> 1]
        /\ loadRet[k] = k
              => /\ handles[k].st # "unalloc"
                 /\ models[k].st # "none"
                 /\ ctxs[k].st # "none"
                 /\ (handles[k].st = "live" /\ \A t \in Threads : call[t].op # "free")
                       => /\ handles[k].model = k /\ models[k].st = "live"
                          /\ handles[k].ctx = k /\ ctxs[k].st = "live"
                          /\ ctxs[k].n_batch = Min(MaxNBatch, handles[k].n_ctx)

\* a load has returned the null handle after the model was loaded and the
\* context could not be created
LoadFailureReleasesWitness ==
    \E k \in 1 .. Len(loadRet) :
        /\ loadRet[k] = 0
        /\ models[k] = [st |-> "freed", frees |-> 1]

\* C11 (free order): nativeFree on a live handle releases the context, then
\* the model, then the LlamaHandle, in that order and each once: the model is
\* still allocated when the context is released and the handle when the
\* model is; no context and no model is ever released twice; and no step of
\* nativeFree on the null handle releases anything or changes any object.
FreeOrder ==
    /\ [](/\ \A k \in ObjIds : ctxs[k].frees <= 1 /\ models[k].frees <= 1
          /\ \A t \in Threads :
                LET c == call[t] IN
                c.op = "free"
                => /\ IsPrefix(c.ops, <<"llama_free", "llama_model_free", "delete">>)
                   /\ c.h = 0 => (c.ops = <<>> /\ c.pc \in {"free_check", "done"})
                   /\ c.pc = "free_ctx"
                         => /\ c.ops = <<>>
                            /\ ctxs[c.h].st = "live" /\ models[c.h].st = "live"
                            /\ handles[c.h].st = "live"
                   /\ c.pc = "free_model"
                         => /\ c.ops = <<"llama_free">>
                            /\ ctxs[c.h].st = "freed" /\ ctxs[c.h].frees = 1
                            /\ models[c.h].st = "live" /\ models[c.h].frees = 0
                            /\ handles[c.h].st = "live"
                   /\ c.pc = "delete"
                         => /\ c.ops = <<"llama_free", "llama_model_free">>
                            /\ ctxs[c.h].st = "freed" /\ ctxs[c.h].frees = 1
                            /\ models[c.h].st = "freed" /\ models[c.h].frees = 1
                            /\ handles[c.h].st = "live"
                   /\ (c.pc = "done" /\ c.h # 0)
                         => /\ c.ops = <<"llama_free", "llama_model_free", "delete">>
                            /\ ctxs[c.h].st = "freed" /\ ctxs[c.h].frees = 1
                            /\ models[c.h].st = "freed" /\ models[c.h].frees = 1
                            /\ handles[c.h].st = "freed")
    /\ [][\A t \in Threads :
            (call[t].op = "free" /\ call[t].h = 0 /\ call'[t] # call[t])
            => /\ UNCHANGED <<handles, models, ctxs, loadRet, backendInits,
                              liveSmpl, crashed>>
               /\ call'[t].ops = <<>>
               /\ call'[t].op = "idle" \/ call'[t].pc = "done"]_vars

\* nativeFree has returned after releasing the context, the model and the
\* handle of a session loaded with the default context size
FreeOrderWitness ==
    \E t \in Threads :
        /\ call[t].op = "free" /\ call[t].pc = "done" /\ call[t].h # 0
        /\ call[t].ops = <<"llama_free", "llama_model_free", "delete">>
        /\ ctxs[call[t].h].frees = 1 /\ models[call[t].h].frees = 1
        /\ handles[call[t].h].n_ctx = DefaultNCtx

\* C12 (sampler selection policy): the chain a request builds depends on the
\* temperature as clamped to at least 0: it is the single stage greedy when
\* that is 0, so for every temperature argument of 0 or less, and then holds
\* no stage that carries the seed; otherwise it is top-p with the
\* normalised P and min_keep 1, then temperature, then the seeded
\* distribution draw, in that order with the draw last.
SamplerSelection ==
    \A t \in Completes :
        LET c == call[t]
            chain == c.smpl.chain
        IN c.smpl.live
           => /\ c.T >= 0
              /\ c.T = (IF c.temp > 0 THEN c.temp ELSE 0)
              /\ c.s = (IF c.seed >= 0 THEN c.seed ELSE LLAMA_DEFAULT_SEED)
              /\ c.temp <= 0 => c.T = 0
              /\ c.T = 0
                    => /\ chain = <<Stage("greedy", 0, 0)>>
                       /\ \A k \in 1 .. Len(chain) : chain[k].kind # "dist"
              /\ c.T > 0
                    => /\ Len(chain) = 3
                       /\ chain[1] = Stage("top_p", c.P, 1)
                       /\ chain[2] = Stage("temp", c.T, 0)
                       /\ chain[3] = Stage("dist", c.s, 0)
                       /\ Last(chain).kind = "dist"

\* a request with a negative temperature and a seed of 0 or more has sampled
\* a token with the greedy chain
SamplerSelectionWitness ==
    \E t \in Completes :
        /\ call[t].temp < 0 /\ call[t].seed >= 0
        /\ call[t].smpl.live
        /\ call[t].smpl.chain = <<Stage("greedy", 0, 0)>>
        /\ call[t].sampled # <<>>

\* C13 (determinism at temperature 0): a request with temperature 0 and the
\* request that differs from it only in the seed argument build the same
\* chain, sample the same token at every step under the same engine
\* outcomes, so perform the same engine operations, and return the same
\* text.
DeterministicAtZero ==
    \A t \in Completes :
        LET c == call[t] IN
        (c.temp = 0 /\ Count(c.ops, "chain_init") = 1)
        => /\ OtherSeed(c.seed) # c.seed
           /\ c.smpl.live => c.twin.chain = c.smpl.chain
           /\ ~c.twin.diverged
           /\ c.sampled # <<>> => c.twin.tok = Last(c.sampled)
           /\ c.pc \in {"sample", "free_sampler"} => c.twin.out = c.output
           /\ c.pc = "done" => c.result = toJStr(c.twin.out)

\* a request with temperature 0 has returned the text of two tokens, and
\* the request with the other seed returns it too
DeterministicAtZeroWitness ==
    \E t \in Completes :
        /\ call[t].temp = 0
        /\ call[t].pc = "done"
        /\ Len(call[t].accepted) = 2
        /\ call[t].result # <<>>
        /\ call[t].result = toJStr(call[t].twin.out)

\* at a temperature above 0 the seed decides the token: a request and the
\* request with the other seed have sampled different tokens
SeedMattersAboveZero ==
    \E t \in Completes : call[t].T > 0 /\ call[t].twin.diverged

PromptEvals(c) == SelectSeq(c.evals, LAMBDA e : ~e.gen)
GenEvals(c) == SelectSeq(c.evals, LAMBDA e : e.gen)

RECURSIVE ConcatToks(_)
ConcatToks(evals) ==
    IF evals = <<>> THEN <<>> ELSE Head(evals).toks \o ConcatToks(Tail(evals))

AfterPromptLoop(c) ==
    \/ c.pc \in {"sampler", "sample", "accept", "piece", "decode", "free_sampler"}
    \/ c.pc = "done" /\ c.exit \in {"sampler", "eog", "budget", "gen_decode"}

\* C14 (prompt chunking): a handle's context window is a positive load
\* argument or 2048 and its batch capacity is min(512, window), at least 1;
\* the chunks a request evaluates come before every evaluation of the
\* generation loop, are non-empty, hold at most the batch capacity, all but
\* the latest evaluated hold exactly the capacity, and put end to end they
\* are the first tokens of the prompt in prompt order; once the chunk loop
\* is over with no chunk failed they are the whole prompt, each token once.
PromptChunking ==
    /\ \A k \in ObjIds :
           handles[k].st = "live"
           => /\ handles[k].n_ctx = DefaultNCtx
                 \/ handles[k].n_ctx \in {j \in NCtxArgs : j > 0}
              /\ ctxs[k].st = "live"
                    => /\ ctxs[k].n_batch = Min(MaxNBatch, handles[k].n_ctx)
                       /\ ctxs[k].n_batch >= 1
    /\ \A t \in Completes :
           LET c == call[t]
               pe == PromptEvals(c)
           IN /\ c.evals = pe \o GenEvals(c)
              /\ pe # <<>> => c.n_batch = Min(MaxNBatch, c.n_ctx)
              /\ \A j \in 1 .. Len(pe) : Len(pe[j].toks) \in 1 .. c.n_batch
              /\ \A j \in 1 .. Len(pe) - 1 : Len(pe[j].toks) = c.n_batch
              /\ IsPrefix(ConcatToks(pe), c.toks)
              /\ c.pc = "prompt" => ConcatToks(pe) = Prefix(c.toks, c.i)
              /\ AfterPromptLoop(c)
                    => /\ \A j \in 1 .. Len(pe) : pe[j].ok
                       /\ ConcatToks(pe) = c.toks
                       /\ Len(c.toks) = c.n_prompt
                       /\ Len(pe) = (c.n_prompt + c.n_batch - 1) \div c.n_batch

\* a request has evaluated a prompt longer than the batch capacity in more
\* than one chunk and has left the chunk loop
PromptChunkingWitness ==
    \E t \in Completes :
        /\ call[t].pc = "sampler"
        /\ call[t].n_prompt > call[t].n_batch
        /\ Len(PromptEvals(call[t])) = call[t].n_prompt
        /\ ConcatToks(PromptEvals(call[t])) = call[t].toks

PassedValidation(c) ==
    c.pc # "validate" /\ ~(c.pc = "done" /\ c.exit \in {"invalid", "empty"})

\* C15 (reset precedes evaluation): the first engine operations of a request
\* that passed validation are the clears of sequences 0, 1, ..., 15 in that
\* order, one each; thread configuration, tokenization and every evaluate
\* call come after all 16 and find every sequence empty up to the first
\* evaluate call; and the request clears nothing after them.
ResetFirst ==
    \A t \in Completes :
        LET c == call[t]
            n == Count(c.ops, "seq_rm")
        IN PassedValidation(c)
           => /\ n <= NSeqIds
              /\ \A j \in 1 .. Len(c.ops) : c.ops[j] = "seq_rm" <=> j <= n
              /\ c.pc = "reset"
                    => /\ c.seq_id = n /\ n < NSeqIds /\ Len(c.ops) = n
                       /\ \A q \in 0 .. n - 1 : KvOf(c)[q] = <<>>
              /\ c.pc # "reset" => n = NSeqIds
              /\ Len(c.ops) > n => /\ n = NSeqIds
                                    /\ c.ops[NSeqIds + 1] = "set_n_threads"
              /\ Len(c.ops) > NSeqIds + 1 => c.ops[NSeqIds + 2] = "tokenize"
              /\ c.evals # <<>> => Count(c.ops, "tokenize") = 2
              /\ (c.pc \in {"threads", "tokenize", "capacity"}
                     \/ (c.pc = "prompt" /\ c.i = 0))
                    => (KvOf(c) = EmptyKv /\ c.evals = <<>>)

\* a request on a handle whose cache held an earlier request's tokens has
\* cleared all 16 sequences, has evaluated its prompt and is generating
ResetFirstWitness ==
    \E t \in Completes :
        /\ call[t].residue # "none"
        /\ call[t].pc = "accept"
        /\ Count(call[t].ops, "seq_rm") = NSeqIds
        /\ call[t].evals # <<>>

GenOpNames == {"sample", "accept", "token_to_piece", "decode", "sampler_free"}

\* C16 (generation step order): after the chain is built the engine
\* operations of a request are rounds of sample, accept, detokenize,
\* evaluate in that order, ended by the release of the chain after an
\* evaluate call or after a sample whose token was not accepted; the tokens
\* evaluated by the loop and the pieces appended are those of the accepted
\* tokens, in order, each accepted before; and no accepted, appended or
\* evaluated token is an end-of-generation token.
GenerationOrder ==
    \A t \in Completes :
        LET c == call[t]
            ge == GenEvals(c)
            pieces == Count(c.ops, "token_to_piece")
        IN Count(c.ops, "chain_init") = 1
           => LET k0 == CHOOSE j \in 1 .. Len(c.ops) : c.ops[j] = "chain_init" IN
              /\ \A j \in k0 + 1 .. Len(c.ops) :
                    /\ c.ops[j] \in GenOpNames
                    /\ c.ops[j] = "sample" => c.ops[j - 1] \in {"chain_init", "decode"}
                    /\ c.ops[j] = "accept" => c.ops[j - 1] = "sample"
                    /\ c.ops[j] = "token_to_piece" => c.ops[j - 1] = "accept"
                    /\ c.ops[j] = "decode" => c.ops[j - 1] = "token_to_piece"
                    /\ c.ops[j] = "sampler_free"
                          => /\ c.ops[j - 1] \in {"sample", "decode"}
                             /\ j = Len(c.ops)
              /\ Len(c.accepted) = Count(c.ops, "accept")
              /\ Len(c.sampled) = Count(c.ops, "sample")
              /\ IsPrefix(c.accepted, c.sampled)
              /\ Len(ge) <= pieces /\ pieces <= Len(c.accepted)
              /\ Len(c.accepted) <= pieces + 1 /\ pieces <= Len(ge) + 1
              /\ \A j \in 1 .. Len(ge) : ge[j].toks = <<c.accepted[j]>>
              /\ c.output = ConcatPieces(Prefix(c.accepted, pieces))
              /\ \A j \in 1 .. Len(c.accepted) : ~llama_vocab_is_eog(c.accepted[j])
              /\ \A j \in 1 .. Len(ge) : ~llama_vocab_is_eog(ge[j].toks[1])

\* a request is at the evaluate call of its second round, with the first
\* token evaluated and both pieces appended
GenerationOrderWitness ==
    \E t \in Completes :
        /\ call[t].pc = "decode"
        /\ Len(call[t].accepted) = 2
        /\ Len(GenEvals(call[t])) = 1
        /\ Count(call[t].ops, "token_to_piece") = 2
        /\ call[t].output # <<>>

\* C17 (the capacity check is a soft warning): a request whose prompt tokens
\* plus max(1, maxTokens) plus 8 exceed the context window goes on to the
\* chunk loop with its budget unchanged at max(1, maxTokens); it ends only
\* where any request ends: on a failed evaluate call, a failed chain
\* allocation, an end-of-generation token or the budget; its chunk loop
\* evaluates the whole prompt unless a chunk fails, and when it stops on the
\* budget it has accepted max(1, maxTokens) tokens.
SoftCapacityCheck ==
    \A t \in Completes :
        LET c == call[t]
            budget == IF c.maxTokens >= 1 THEN c.maxTokens ELSE 1
        IN /\ c.warned <=> (c.n_ctx > 0 /\ c.n_prompt + budget + CtxMargin > c.n_ctx)
           /\ c.warned
                 => /\ c.predict = budget
                    /\ c.n_ctx = handles[c.h].n_ctx
                    /\ c.pc \in {"prompt", "sampler", "sample", "accept", "piece",
                                 "decode", "free_sampler", "done"}
                    /\ c.pc = "done"
                          => c.exit \in {"prompt_decode", "sampler", "eog",
                                         "budget", "gen_decode"}
                    /\ (c.pc = "done" /\ c.exit = "prompt_decode")
                          => (c.evals # <<>> /\ ~Last(c.evals).ok)
                    /\ (c.pc = "prompt" /\ c.i = 0) => c.evals = <<>>
                    /\ AfterPromptLoop(c) => ConcatToks(PromptEvals(c)) = c.toks
                    /\ c.pc = "sample" => c.t < budget
                    /\ c.exit = "budget"
                          => /\ Len(c.accepted) = budget
                             /\ Len(GenEvals(c)) = budget
                             /\ c.t = budget

\* a request warned about, whose prompt and budget of two tokens fit the
\* context window without the margin, has returned on its budget
SoftCapacityCheckWitness ==
    \E t \in Completes :
        /\ call[t].warned
        /\ call[t].pc = "done"
        /\ call[t].exit = "budget"
        /\ call[t].maxTokens = 2
        /\ Len(call[t].accepted) = 2
        /\ Len(ConcatToks(call[t].evals)) = call[t].n_ctx

Submitted(c) == Len(ConcatToks(c.evals))

\* C18 (as claimed): the tokens a request has submitted to evaluate calls,
\* prompt chunks and generated tokens together, never number more than the
\* context window size of its handle.
ContextWindowBound ==
    \A t \in Completes :
        call[t].evals # <<>> => Submitted(call[t]) <= handles[call[t].h].n_ctx

\* C18 (amended): the tokens a request has submitted to evaluate calls
\* number at most its prompt tokens plus max(1, maxTokens); that is within
\* the context window size, with the margin of 8 to spare, when the
\* capacity check passed, and the window size does not limit it otherwise.
SubmittedBound ==
    \A t \in Completes :
        LET c == call[t]
            budget == IF c.maxTokens >= 1 THEN c.maxTokens ELSE 1
        IN c.evals # <<>>
           => /\ Submitted(c) <= c.n_prompt + budget
              /\ Len(ConcatToks(PromptEvals(c))) <= c.n_prompt
              /\ Len(GenEvals(c)) <= budget
              /\ ~c.warned => Submitted(c) + CtxMargin <= handles[c.h].n_ctx

\* a request that passed the capacity check has returned after submitting
\* its whole prompt and its whole budget of two tokens
SubmittedBoundWitness ==
    \E t \in Completes :
        /\ ~call[t].warned
        /\ call[t].pc = "done"
        /\ call[t].maxTokens = 2
        /\ Submitted(call[t]) = call[t].n_prompt + 2
        /\ Submitted(call[t]) < handles[call[t].h].n_ctx

\* C19 (termination): a request the caller's lane makes on a handle that is
\* valid when it starts returns, whatever the prompt, maxTokens and the outcomes of the evaluate
\* calls; the batch capacity is at least 1, every iteration of the prompt
\* chunk loop that does not return moves the chunk index forward by at
\* least one token, there are at most as many chunks as prompt tokens, every
\* iteration of the generation loop that goes round adds one to the
\* loop counter, and the loop samples at most max(1, maxTokens) times.
Termination ==
    /\ (call[Lane].op = "complete" /\ ValidHandle(call[Lane].h))
          ~> (call[Lane].op = "idle")
    /\ [](\A t \in Completes :
             LET c == call[t]
                 budget == IF c.maxTokens >= 1 THEN c.maxTokens ELSE 1
             IN /\ c.pc = "prompt" => c.n_batch >= 1
                /\ Len(PromptEvals(c)) <= c.n_prompt
                /\ c.t <= c.predict
                /\ Len(c.sampled) <= budget
                /\ Len(c.sampled) <= c.t + 1)
    /\ [][\A t \in Threads :
            LET c == call[t] IN
            (c.op = "complete" /\ call'[t] # c)
            => /\ (c.pc = "prompt" /\ call'[t].pc # "done")
                     => (call'[t].i >= c.i + 1 /\ c.i < c.n_prompt)
               /\ (c.pc = "decode" /\ call'[t].pc = "sample")
                     => call'[t].t = c.t + 1
               /\ c.pc = "sample" => c.t < c.predict]_vars

\* a request on a valid handle has returned to its caller after the
\* longest generation the budget allows
TerminationWitness ==
    \E t \in Completes :
        /\ call[t].pc = "done"
        /\ ValidHandle(call[t].h)
        /\ call[t].t = call[t].predict
        /\ call[t].predict = MaxTokensArg
        /\ call[t].n_prompt > call[t].n_batch

\* C20 (exclusivity is not enforced): whatever another thread's call on the
\* same handle is doing, a thread that is not in a call can enter
\* nativeCompletion and nativeFree, and a call that has reached its cache
\* reset, a prompt or generation evaluate call, its sample or the release of
\* the context can take that step, as long as the objects the step uses are
\* allocated: no step waits for, tests or records another call.
NoExclusion ==
    ~crashed
    => \A t \in Threads :
          LET c == call[t] IN
          /\ c.op = "idle" => (ENABLED BeginCompletion(t) /\ ENABLED BeginFree(t))
          /\ (c.op = "complete" /\ Alive(c))
                => /\ c.pc = "reset" => ENABLED ResetStep(t)
                   /\ c.pc = "prompt" => ENABLED PromptDecode(t)
                   /\ c.pc = "sample" => ENABLED SampleStep(t)
                   /\ c.pc = "decode" => ENABLED DecodeStep(t)
          /\ (c.op = "free" /\ c.pc = "free_ctx") => ENABLED FreeCtx(t)

\* two requests are in flight on one handle, and the second has cleared the
\* cache between the first one's prompt evaluation and its next generation
\* step
NoExclusionWitness ==
    /\ ~crashed
    /\ \E t \in Threads, u \in Threads :
          /\ t # u
          /\ call[t].op = "complete" /\ call[u].op = "complete"
          /\ call[t].h = call[u].h
          /\ Alive(call[t])
          /\ call[t].pc \in {"sample", "accept", "piece", "decode"}
          /\ call[t].evals # <<>>
          /\ call[u].pc = "reset" /\ call[u].seq_id >= 1
          /\ call[t].fresh.kv # <<>>
          /\ KvOf(call[t])[0] = <<>>

\* nativeFree has released the context between a request's prompt
\* evaluation and its next generation step
ReleaseDuringGeneration ==
    \E t \in Threads :
        /\ call[t].op = "complete"
        /\ call[t].pc \in {"sample", "decode"}
        /\ call[t].evals # <<>>
        /\ call[Other].op = "free" /\ call[Other].h = call[t].h
        /\ ctxs[call[t].h].st = "freed"

=============================================================================
